---- MODULE Spec2Model ----
(***************************************************************************)
(* Model of the Vercel serverless handlers of the Stability/Landbot        *)
(* middleware: api/enhance-image.js, api/generate-image.js and the shared  *)
(* lib/helpers.js.                                                         *)
(*                                                                         *)
(* Text is modelled at two granularities.  Values that the code inspects   *)
(* character by character (prompt, aspect_ratio, output_format, strength,  *)
(* content types) are sequences of one-character strings.  Error messages, *)
(* which the code only builds by interpolation and inspects with           *)
(* String.prototype.includes, are sequences of words; includes is the      *)
(* contiguous-subsequence test on words.                                   *)
(***************************************************************************)
EXTENDS Integers, Sequences, FiniteSets, TLC

(***************************************************************************)
(* Bounds of the model                                                     *)
(***************************************************************************)
MaxPromptLen == 3
MaxAspectLen == 3
MaxStrengthLen == 3
MaxTextLen == 2
MaxKeyLen == 3
SizeSlack == 1

(***************************************************************************)
(* JavaScript values.  A number is the fraction num/den, den a power of    *)
(* ten, kept normalised (no trailing zero in the fraction).                *)
(***************************************************************************)
JSUndefined == [t |-> "undefined", s |-> <<>>, num |-> 0, den |-> 1]
JSNull == [t |-> "null", s |-> <<>>, num |-> 0, den |-> 1]
JSTrue == [t |-> "boolean", s |-> <<>>, num |-> 1, den |-> 1]
JSNaN == [t |-> "number", s |-> <<"N", "a", "N">>, num |-> 0, den |-> 1]

RECURSIVE Normalise(_, _)
Normalise(num, den) ==
  IF den > 1 /\ num % 10 = 0 THEN Normalise(num \div 10, den \div 10)
  ELSE <<num, den>>

JSNum(num, den) ==
  LET nd == Normalise(num, den)
  IN [t |-> "number", s |-> <<>>, num |-> nd[1], den |-> nd[2]]

JSStr(chars) == [t |-> "string", s |-> chars, num |-> 0, den |-> 1]

IsNaN(v) == v.t = "number" /\ v.s # <<>>

\* ToBoolean: the falsy values are undefined, null, false, 0, NaN and "".
Truthy(v) ==
  CASE v.t = "undefined" -> FALSE
    [] v.t = "null" -> FALSE
    [] v.t = "boolean" -> v.num = 1
    [] v.t = "number" -> ~IsNaN(v) /\ v.num # 0
    [] v.t = "string" -> v.s # <<>>
    [] OTHER -> TRUE

Digits == <<"0", "1", "2", "3", "4", "5", "6", "7", "8", "9">>
IsDigit(c) == \E i \in 1..10 : Digits[i] = c
DigitValue(c) == (CHOOSE i \in 1..10 : Digits[i] = c) - 1

RECURSIVE NatToStr(_)
NatToStr(n) ==
  IF n < 10 THEN <<Digits[n + 1]>>
  ELSE NatToStr(n \div 10) \o <<Digits[(n % 10) + 1]>>

RECURSIVE FracToStr(_, _)
\* the digits of frac/den after the decimal point, den a power of ten
FracToStr(frac, den) ==
  IF den = 1 THEN <<>>
  ELSE <<Digits[(frac \div (den \div 10)) + 1]>>
         \o FracToStr(frac % (den \div 10), den \div 10)

\* Number.prototype.toString for the decimal fractions of the model
NumToStr(v) ==
  IF IsNaN(v) THEN <<"N", "a", "N">>
  ELSE LET abs == IF v.num < 0 THEN 0 - v.num ELSE v.num
           sign == IF v.num < 0 THEN <<"-">> ELSE <<>>
           int == NatToStr(abs \div v.den)
           frac == FracToStr(abs % v.den, v.den)
       IN sign \o int \o (IF frac = <<>> THEN <<>> ELSE <<".">> \o frac)

\* ToString (the coercion applied by RegExp.test and parseFloat)
JSToString(v) ==
  CASE v.t = "string" -> v.s
    [] v.t = "number" -> NumToStr(v)
    [] v.t = "boolean" -> IF v.num = 1 THEN <<"t", "r", "u", "e">>
                          ELSE <<"f", "a", "l", "s", "e">>
    [] v.t = "null" -> <<"n", "u", "l", "l">>
    [] v.t = "function" -> <<"f", "u", "n", "c", "t", "i", "o", "n">>
    [] OTHER -> <<"u", "n", "d", "e", "f", "i", "n", "e", "d">>

(***************************************************************************)
(* String primitives                                                       *)
(***************************************************************************)
WhiteSpace == {" ", "\t", "\n"}

RECURSIVE TrimStart(_)
TrimStart(s) ==
  IF s # <<>> /\ Head(s) \in WhiteSpace THEN TrimStart(Tail(s)) ELSE s

RECURSIVE TrimEnd(_)
TrimEnd(s) ==
  IF s # <<>> /\ s[Len(s)] \in WhiteSpace
  THEN TrimEnd(SubSeq(s, 1, Len(s) - 1)) ELSE s

\* String.prototype.trim
Trim(s) == TrimEnd(TrimStart(s))

UpperLetters ==
  <<"A", "B", "C", "D", "E", "F", "G", "H", "I", "J", "K", "L", "M",
    "N", "O", "P", "Q", "R", "S", "T", "U", "V", "W", "X", "Y", "Z">>
LowerLetters ==
  <<"a", "b", "c", "d", "e", "f", "g", "h", "i", "j", "k", "l", "m",
    "n", "o", "p", "q", "r", "s", "t", "u", "v", "w", "x", "y", "z">>

ToLowerChar(c) ==
  IF \E i \in 1..Len(UpperLetters) : UpperLetters[i] = c
  THEN LowerLetters[CHOOSE i \in 1..Len(UpperLetters) : UpperLetters[i] = c]
  ELSE c

\* String.prototype.toLowerCase
ToLowerCase(s) == [i \in 1..Len(s) |-> ToLowerChar(s[i])]

\* String.prototype.includes
Includes(s, needle) ==
  \E i \in 0..(Len(s) - Len(needle)) :
    SubSeq(s, i + 1, i + Len(needle)) = needle

RECURSIVE DigitRun(_)
\* length of the longest prefix of s made of decimal digits
DigitRun(s) ==
  IF s # <<>> /\ IsDigit(Head(s)) THEN 1 + DigitRun(Tail(s)) ELSE 0

RECURSIVE DigitsValue(_)
DigitsValue(s) ==
  IF s = <<>> THEN 0
  ELSE 10 * DigitsValue(SubSeq(s, 1, Len(s) - 1)) + DigitValue(s[Len(s)])

RECURSIVE Pow10(_)
Pow10(k) == IF k = 0 THEN 1 ELSE 10 * Pow10(k - 1)

\* /^\d+:\d+$/.test(v)
MatchesAspect(v) ==
  LET s == JSToString(v)
      w == DigitRun(s)
      rest == SubSeq(s, w + 2, Len(s))
  IN /\ w > 0
     /\ Len(s) > w
     /\ s[w + 1] = ":"
     /\ rest # <<>>
     /\ DigitRun(rest) = Len(rest)

\* parseFloat: skip leading white space, take the longest prefix that is a
\* decimal literal (sign, digits, optional fraction), ignore what follows.
\* The model's alphabets have no exponent marker and no "Infinity".
ParseFloat(v) ==
  LET t == TrimStart(JSToString(v))
      signed == t # <<>> /\ Head(t) \in {"+", "-"}
      neg == t # <<>> /\ Head(t) = "-"
      u == IF signed THEN Tail(t) ELSE t
      intLen == DigitRun(u)
      hasDot == Len(u) > intLen /\ u[intLen + 1] = "."
      fracLen == IF hasDot THEN DigitRun(SubSeq(u, intLen + 2, Len(u))) ELSE 0
      int == DigitsValue(SubSeq(u, 1, intLen))
      frac == DigitsValue(SubSeq(u, intLen + 2, intLen + 1 + fracLen))
      mag == int * Pow10(fracLen) + frac
  IN IF intLen + fracLen = 0 THEN JSNaN
     ELSE JSNum(IF neg THEN 0 - mag ELSE mag, Pow10(fracLen))

(***************************************************************************)
(* Outcomes of a call: a returned value or a thrown error                  *)
(***************************************************************************)
Return(v) == [ok |-> TRUE, value |-> v]
Throw(name, message) == [ok |-> FALSE, name |-> name, message |-> message]

(***************************************************************************)
(* lib/helpers.js                                                          *)
(***************************************************************************)
s_webp == <<"w", "e", "b", "p">>
s_png == <<"p", "n", "g">>
s_jpeg == <<"j", "p", "e", "g">>
s_jpg == <<"j", "p", "g">>
s_gif == <<"g", "i", "f">>
s_constructor == <<"c", "o", "n", "s", "t", "r", "u", "c", "t", "o", "r">>
s_image_webp == <<"i", "m", "a", "g", "e", "/">> \o s_webp
s_image_png == <<"i", "m", "a", "g", "e", "/">> \o s_png
s_image_jpeg == <<"i", "m", "a", "g", "e", "/">> \o s_jpeg
s_image_jpg == <<"i", "m", "a", "g", "e", "/">> \o s_jpg
s_octet_stream ==
  <<"a", "p", "p", "l", "i", "c", "a", "t", "i", "o", "n", "/",
    "o", "c", "t", "e", "t", "-", "s", "t", "r", "e", "a", "m">>

\* a property every object literal inherits from Object.prototype
JSFunction == [t |-> "function", s |-> s_constructor, num |-> 0, den |-> 1]

\* mimeTypes[key]
mimeTypes(key) ==
  CASE key = s_webp -> JSStr(s_image_webp)
    [] key = s_png -> JSStr(s_image_png)
    [] key = s_jpeg -> JSStr(s_image_jpeg)
    [] key = s_jpg -> JSStr(s_image_jpeg)
    [] key = s_constructor -> JSFunction
    [] OTHER -> JSUndefined

getMimeType_caseSensitive(format) ==
  IF format.t \in {"undefined", "null"}
  THEN Return(JSStr(s_image_webp))
  ELSE LET hit == mimeTypes(format.s)
       IN Return(IF Truthy(hit) THEN hit ELSE JSStr(s_image_webp))

getMimeType(format) ==
  IF format.t \in {"undefined", "null"}
  THEN Return(JSStr(s_image_webp))
  ELSE IF format.t # "string"
  THEN Throw("TypeError",
             <<"format", ".", "toLowerCase", "is", "not", "a", "function">>)
  ELSE LET hit == mimeTypes(ToLowerCase(format.s))
       IN Return(IF Truthy(hit) THEN hit ELSE JSStr(s_image_webp))

\* extensions[key]
extensions(key) ==
  CASE key = s_image_webp -> JSStr(<<".">> \o s_webp)
    [] key = s_image_png -> JSStr(<<".">> \o s_png)
    [] key = s_image_jpeg -> JSStr(<<".">> \o s_jpg)
    [] key = s_image_jpg -> JSStr(<<".">> \o s_jpg)
    [] key = s_octet_stream -> JSStr(<<".", "b", "i", "n">>)
    [] key = s_constructor -> JSFunction
    [] OTHER -> JSUndefined

RECURSIVE BeforeSemicolon(_)
\* s.split(';')[0]
BeforeSemicolon(s) ==
  IF s = <<>> \/ Head(s) = ";" THEN <<>>
  ELSE <<Head(s)>> \o BeforeSemicolon(Tail(s))

getFileExtension(contentType) ==
  IF contentType.t \in {"undefined", "null"}
  THEN Return(JSStr(<<".", "b", "i", "n">>))
  ELSE IF contentType.t # "string"
  THEN Throw("TypeError",
             <<"contentType", ".", "split", "is", "not", "a", "function">>)
  ELSE LET hit == extensions(ToLowerCase(BeforeSemicolon(contentType.s)))
       IN Return(IF Truthy(hit) THEN hit ELSE JSStr(<<".", "b", "i", "n">>))

MsgPrompt ==
  <<"Prompt", "is", "required", "and", "must", "be", "a", "non-empty",
    "string">>
MsgStrength ==
  <<"Strength", "must", "be", "a", "number", "between", "0", "and", "1">>
MsgAspect ==
  <<"Aspect", "ratio", "must", "be", "in", "format", "\"width:height\"",
    "(e.g.,", "\"16:9\")">>
MsgFormat ==
  <<"Output", "format", "must", "be", "one", "of", ":", "webp,", "png,",
    "jpeg">>

validFormats == {s_webp, s_png, s_jpeg}

\* A parsed request body: an object with the properties the handlers read
\* (an absent property reads as undefined), or a non-object JSON value.
NoFields ==
  [prompt |-> JSUndefined, aspect_ratio |-> JSUndefined,
   output_format |-> JSUndefined, strength |-> JSUndefined,
   image_url |-> JSUndefined]
BodyObject(f) == [t |-> "object", f |-> f]
BodyNull == [t |-> "null", f |-> NoFields]
BodyNumber == [t |-> "number", f |-> NoFields]

strengthInRange(n) == ~(IsNaN(n) \/ n.num < 0 \/ n.num > n.den)

validatedOutputFormat(output_format) ==
  IF Truthy(output_format) THEN output_format ELSE JSStr(s_webp)

validateParams(params) ==
  IF params.t \in {"null", "undefined"}
  THEN Throw("TypeError",
             <<"Cannot", "destructure", "property", "'prompt'", "of",
               "'params'", "as", "it", "is", params.t>>)
  ELSE
  LET prompt == params.f.prompt
      aspect_ratio == params.f.aspect_ratio
      output_format == params.f.output_format
      strength == params.f.strength
  IN IF ~Truthy(prompt) \/ prompt.t # "string" \/ Len(Trim(prompt.s)) = 0
     THEN Throw("Error", MsgPrompt)
     ELSE
     LET base ==
           [prompt |-> JSStr(Trim(prompt.s)),
            aspect_ratio |->
              IF Truthy(aspect_ratio) THEN aspect_ratio
              ELSE JSStr(<<"1", ":", "1">>),
            output_format |-> validatedOutputFormat(output_format)]
         strengthNum == ParseFloat(strength)
         validatedParams ==
           IF strength.t # "undefined"
           THEN [prompt |-> base.prompt, aspect_ratio |-> base.aspect_ratio,
                 output_format |-> base.output_format,
                 strength |-> strengthNum]
           ELSE base
     IN IF strength.t # "undefined" /\ ~strengthInRange(strengthNum)
        THEN Throw("Error", MsgStrength)
        ELSE IF ~MatchesAspect(validatedParams.aspect_ratio)
        THEN Throw("Error", MsgAspect)
        ELSE IF validatedParams.output_format.t # "string"
        THEN Throw("TypeError",
                   <<"validatedParams", ".", "output_format", ".",
                     "toLowerCase", "is", "not", "a", "function">>)
        ELSE IF ToLowerCase(validatedParams.output_format.s) \notin validFormats
        THEN Throw("Error", MsgFormat)
        ELSE Return(validatedParams)

\* new URL(text): the texts of the model are word sequences
\* <<scheme, ":", "//", host, path>>; a text without a scheme, or an
\* http(s)/ftp text without a host, does not parse.
protocolOf(scheme) ==
  CASE scheme \in {"http", "HTTP"} -> "http:"
    [] scheme \in {"https", "HTTPS"} -> "https:"
    [] scheme = "ftp" -> "ftp:"
    [] scheme = "data" -> "data:"
    [] OTHER -> ""

NewURL(text) ==
  LET protocol == IF Len(text) >= 2 /\ text[2] = ":"
                  THEN protocolOf(text[1]) ELSE ""
      special == protocol \in {"http:", "https:", "ftp:"}
      hasHost == Len(text) >= 4 /\ text[3] = "//"
  IN IF protocol = "" \/ (special /\ ~hasHost)
     THEN Throw("TypeError", <<"Invalid", "URL">>)
     ELSE Return([protocol |-> protocol])

MsgUrlRequired ==
  <<"image_url", "is", "required", "and", "must", "be", "a", "string">>
MsgUrlProtocol ==
  <<"image_url", "must", "use", "HTTP", "or", "HTTPS", "protocol">>
MsgUrlInvalid == <<"image_url", "must", "be", "a", "valid", "URL">>

validateImageUrl_anyProtocol(imageUrl) ==
  IF ~Truthy(imageUrl) \/ imageUrl.t # "string"
  THEN Throw("Error", MsgUrlRequired)
  ELSE IF NewURL(imageUrl.s).ok THEN Return(imageUrl)
  ELSE Throw("Error", MsgUrlInvalid)

validateImageUrl(imageUrl) ==
  IF ~Truthy(imageUrl) \/ imageUrl.t # "string"
  THEN Throw("Error", MsgUrlRequired)
  ELSE LET url == NewURL(imageUrl.s)
           tried ==
             IF ~url.ok THEN url
             ELSE IF url.value.protocol \notin {"http:", "https:"}
             THEN Throw("Error", MsgUrlProtocol)
             ELSE Return(imageUrl)
       IN \* the catch replaces whatever was thrown inside the try
          IF tried.ok THEN tried ELSE Throw("Error", MsgUrlInvalid)

\* response.ok
ResponseOk(status) == status >= 200 /\ status <= 299

\* What the remote image server does: the fetch rejects, or it resolves
\* with a status, a status text, a content-type header (null when the
\* header is missing) and a body of `size` bytes.
FetchRejected(cause) ==
  [kind |-> "reject", cause |-> cause, status |-> 0, statusText |-> <<>>,
   contentType |-> JSNull, size |-> 0]
FetchResponse(status, statusText, contentType, size) ==
  [kind |-> "response", cause |-> <<>>, status |-> status,
   statusText |-> statusText, contentType |-> contentType, size |-> size]

downloadImage_statusIgnored(remote) ==
  IF remote.kind = "reject"
  THEN Throw("Error", <<"Image", "download", "failed", ":">> \o remote.cause)
  ELSE Return([buffer |-> [length |-> remote.size],
               contentType |->
                 IF Truthy(remote.contentType) THEN remote.contentType
                 ELSE JSStr(s_octet_stream)])

downloadImage(remote) ==
  LET tried ==
        IF remote.kind = "reject" THEN Throw("TypeError", remote.cause)
        ELSE IF ~ResponseOk(remote.status)
        THEN Throw("Error",
                   <<"Failed", "to", "download", "image", ":",
                     ToString(remote.status)>> \o remote.statusText)
        ELSE Return([buffer |-> [length |-> remote.size],
                     contentType |->
                       IF Truthy(remote.contentType) THEN remote.contentType
                       ELSE JSStr(s_octet_stream)])
  IN IF tried.ok THEN tried
     ELSE Throw("Error",
                <<"Image", "download", "failed", ":">> \o tried.message)

(***************************************************************************)
(* api/enhance-image.js and api/generate-image.js: the upstream client     *)
(***************************************************************************)
MsgApiKey ==
  <<"STABILITY_API_KEY", "environment", "variable", "is", "required">>
MsgNoImage ==
  <<"No", "image", "data", "received", "from", "Stability", "API">>
MsgFetchFailed == <<"fetch", "failed">>

\* if (!apiKey)
credentialMissing_skipped(apiKey) == FALSE
credentialMissing(apiKey) == ~Truthy(apiKey)

\* The multipart form each handler builds.
formData(operation, params, imageData) ==
  LET common ==
        [prompt |-> JSToString(params.prompt),
         aspect_ratio |-> JSToString(params.aspect_ratio),
         output_format |-> JSToString(params.output_format)]
      image ==
        [filename |-> <<"i", "n", "p", "u", "t">>
                        \o JSToString(getFileExtension(imageData.contentType).value),
         contentType |-> imageData.contentType.s,
         length |-> imageData.buffer.length]
  IN IF operation = "generate"
     THEN [prompt |-> common.prompt, aspect_ratio |-> common.aspect_ratio,
           output_format |-> common.output_format, none |-> <<>>]
     ELSE IF "strength" \in DOMAIN params
     THEN [prompt |-> common.prompt, aspect_ratio |-> common.aspect_ratio,
           output_format |-> common.output_format,
           strength |-> NumToStr(params.strength), image |-> image]
     ELSE [prompt |-> common.prompt, aspect_ratio |-> common.aspect_ratio,
           output_format |-> common.output_format, image |-> image]

\* The request callStabilityAPI hands to fetch.
stabilityRequest(operation, params, imageData, apiKey) ==
  [to |-> "stability", method |-> "POST",
   authorization |-> <<"Bearer">> \o apiKey.s,
   accept |-> "application/json",
   body |-> formData(operation, params, imageData)]

\* What the upstream API does: the fetch rejects, or it resolves with a
\* status; response.text() gives `text`, response.json() parses `json`.
JsonMalformed == [valid |-> FALSE, t |-> "none", image |-> JSUndefined]
JsonNull == [valid |-> TRUE, t |-> "null", image |-> JSUndefined]
JsonObject(image) == [valid |-> TRUE, t |-> "object", image |-> image]
StabilityRejected ==
  [kind |-> "reject", status |-> 0, text |-> <<>>, json |-> JsonMalformed]
StabilityResponse(status, text, json) ==
  [kind |-> "response", status |-> status, text |-> text, json |-> json]

\* callStabilityAPI from the point where the fetch settles
stabilityResult(upstream) ==
  IF upstream.kind = "reject" THEN Throw("TypeError", MsgFetchFailed)
  ELSE IF ~ResponseOk(upstream.status)
  THEN Throw("Error",
             <<"Stability", "API", "error", ":", ToString(upstream.status),
               "-">> \o upstream.text)
  ELSE IF ~upstream.json.valid
  THEN Throw("SyntaxError",
             <<"Unexpected", "token", "in", "JSON", "at", "position", "0">>)
  ELSE IF upstream.json.t = "null"
  THEN Throw("TypeError",
             <<"Cannot", "read", "properties", "of", "null", "(reading",
               "'image')">>)
  ELSE IF ~Truthy(upstream.json.image) THEN Throw("Error", MsgNoImage)
  ELSE Return(upstream.json.image)

(***************************************************************************)
(* The handlers' responses                                                 *)
(***************************************************************************)
Now == "now"
maxSize == 10 * 1024 * 1024

\* res.status(status).json(body) and res.status(status).end()
Json(status, body) == [status |-> status, json |-> TRUE, body |-> body]
End(status) == [status |-> status, json |-> FALSE, body |-> <<>>]

MethodNotAllowed ==
  Json(405, [error |-> "Method not allowed",
             message |-> <<"This", "endpoint", "only", "accepts", "POST",
                           "requests">>])
InvalidJson ==
  Json(400, [error |-> "Invalid JSON",
             message |-> <<"Request", "body", "must", "be", "valid",
                           "JSON">>])
DownloadFailed(downloadError) ==
  Json(400, [error |-> "Image download failed",
             message |-> downloadError.message, timestamp |-> Now])

\* Math.round(length / 1024 / 1024)
RoundMB(length) == (2 * length + 1024 * 1024) \div (2 * 1024 * 1024)

ImageTooLarge(length) ==
  Json(400, [error |-> "Image too large",
             message |-> <<"Image", "size", "(", ToString(RoundMB(length)),
                           "MB)", "exceeds", "maximum", "allowed", "size",
                           "(10MB)">>,
             timestamp |-> Now])

\* imageData.buffer.length > maxSize
tooLarge_inclusive(length) == length >= maxSize
tooLarge(length) == length > maxSize

\* the status selection of the two catch blocks
statusCode(operation, message) ==
  IF Includes(message, <<"required">>) \/ Includes(message, <<"must", "be">>)
  THEN 400
  ELSE IF Includes(message, <<"STABILITY_API_KEY">>) THEN 500
  ELSE IF Includes(message, <<"Stability", "API", "error">>) THEN 502
  ELSE IF /\ operation = "enhance"
          /\ \/ Includes(message, <<"download">>)
             \/ Includes(message, <<"URL">>)
  THEN 400
  ELSE 500

failureLabel(operation) ==
  IF operation = "enhance" THEN "Image enhancement failed"
  ELSE "Image generation failed"

\* the responses a catch block sends for the error it caught
catchBlock_swallowed(operation, error) == <<>>
catchBlock(operation, error) ==
  <<Json(statusCode(operation, error.message),
         [error |-> failureLabel(operation), message |-> error.message,
          timestamp |-> Now])>>

dataUri(mimeType, base64Image) ==
  <<"d", "a", "t", "a", ":">> \o JSToString(mimeType)
    \o <<";", "b", "a", "s", "e", "6", "4", ",">> \o JSToString(base64Image)

successResponse(operation, params, imageUrl, imageData, base64Image) ==
  LET image_url == dataUri(getMimeType(params.output_format).value, base64Image)
  IN IF operation = "generate"
     THEN Json(200, [image_url |-> image_url,
                     metadata |-> [prompt |-> params.prompt,
                                   aspect_ratio |-> params.aspect_ratio,
                                   output_format |-> params.output_format,
                                   generated_at |-> Now]])
     ELSE Json(200, [image_url |-> image_url,
                     metadata |-> [prompt |-> params.prompt,
                                   aspect_ratio |-> params.aspect_ratio,
                                   output_format |-> params.output_format,
                                   strength |->
                                     IF "strength" \in DOMAIN params
                                     THEN params.strength ELSE JSUndefined,
                                   input_image_url |-> imageUrl,
                                   input_image_type |-> imageData.contentType,
                                   input_image_size_bytes |->
                                     imageData.buffer.length,
                                   enhanced_at |-> Now]])

(***************************************************************************)
(* State                                                                   *)
(***************************************************************************)
VARIABLES
  apiKey,       \* process.env.STABILITY_API_KEY
  op,           \* which handler serves the request: "enhance" or "generate"
  req,          \* the request: method and body as the platform delivers it
  headers,      \* response headers set so far
  pc,           \* position of the handler
  body,         \* the parsed body
  imageUrl,     \* enhance: the validated image_url
  params,       \* the record validateParams returned
  imageData,    \* enhance: what downloadImage returned
  thrown,       \* the error a catch block of the handler caught
  steps,        \* the stages of the pipeline entered so far, in order
  network,      \* the HTTP requests issued so far, in order
  imageServer,  \* how the image fetch settled
  stability,    \* how the upstream fetch settled
  responses,    \* the responses sent so far, in order
  argument,     \* a helper applied on its own: the function and its input
  returned      \* a helper applied on its own: what the call produced

vars ==
  <<apiKey, op, req, headers, pc, body, imageUrl, params, imageData, thrown,
    steps, network, imageServer, stability, responses, argument, returned>>

None == [t |-> "none"]
NoError == [ok |-> TRUE, value |-> None]
NotSettled == [kind |-> "none"]

(***************************************************************************)
(* Inputs                                                                  *)
(***************************************************************************)
RECURSIVE SeqsUpTo(_, _)
\* the sequences over alphabet of length at most n
SeqsUpTo(alphabet, n) ==
  IF n = 0 THEN {<<>>}
  ELSE LET shorter == SeqsUpTo(alphabet, n - 1)
       IN shorter \cup {Append(w, c) : w \in shorter, c \in alphabet}

ApiKeys == {JSUndefined, JSStr(<<>>), JSStr(<<"sk-test">>)}
Methods == {"POST", "OPTIONS", "GET", "PUT"}

UrlHttp == JSStr(<<"http", ":", "//", "img.example", "/cat.png">>)
UrlHttps == JSStr(<<"HTTPS", ":", "//", "img.example", "/cat.png">>)
UrlFtp == JSStr(<<"ftp", ":", "//", "img.example", "/cat.png">>)
UrlNoScheme == JSStr(<<"img.example", "/cat.png">>)
UrlNoHost == JSStr(<<"http", ":", "//">>)

\* the bodies of the requests sent to the handlers
HandlerBodies ==
  {BodyNull, BodyNumber} \cup
  {BodyObject([prompt |-> p, aspect_ratio |-> a, output_format |-> f,
               strength |-> st, image_url |-> u]) :
     p \in {JSUndefined, JSNum(5, 1), JSStr(<<" ", "a", " ">>)},
     a \in {JSUndefined, JSStr(<<"1", "6", ":", "9">>), JSStr(<<"x">>)},
     f \in {JSUndefined, JSNum(5, 1), JSStr(<<"P", "N", "G">>),
            JSStr(s_jpeg), JSStr(s_gif)},
     st \in {JSUndefined, JSNum(0, 1), JSNum(5, 10), JSNum(2, 1)},
     u \in {JSUndefined, JSNum(5, 1), UrlHttp, UrlHttps, UrlFtp,
            UrlNoScheme, UrlNoHost}}

\* req.body: nothing, a text (empty, malformed, or the JSON text of a
\* value), or a value the platform has already parsed
RawUndefined == [kind |-> "undefined", text |-> "", value |-> BodyNull]
RawEmpty == [kind |-> "text", text |-> "empty", value |-> BodyNull]
RawMalformed == [kind |-> "text", text |-> "malformed", value |-> BodyNull]
RawJson(v) == [kind |-> "text", text |-> "json", value |-> v]
RawParsed(v) == [kind |-> "value", text |-> "", value |-> v]

RawBodies ==
  {RawUndefined, RawEmpty, RawMalformed}
    \cup {RawJson(v) : v \in HandlerBodies}
    \cup {RawParsed(v) : v \in HandlerBodies}

\* req.body || ''
rawBody(raw) ==
  IF \/ raw.kind = "undefined"
     \/ raw.kind = "text" /\ raw.text = "empty"
     \/ raw.kind = "value" /\ raw.value.t = "null"
  THEN RawEmpty
  ELSE raw

\* typeof rawBody === 'string' ? JSON.parse(rawBody) : rawBody
parseBody(raw) ==
  IF raw.kind = "text"
  THEN IF raw.text = "json" THEN Return(raw.value)
       ELSE Throw("SyntaxError",
                  <<"Unexpected", "end", "of", "JSON", "input">>)
  ELSE Return(raw.value)

ImageContentTypes ==
  {JSNull, JSStr(s_image_png),
   JSStr(<<"I", "M", "A", "G", "E", "/", "J", "P", "E", "G", ";", " ",
           "q", "=", "1">>)}
ImageSizes == {0} \cup ((maxSize - SizeSlack)..(maxSize + SizeSlack))

ImageServerOutcomes ==
  {FetchRejected(MsgFetchFailed)}
    \cup {FetchResponse(404, <<"Not", "Found">>, JSNull, 0),
          FetchResponse(500, <<"Internal", "Server", "Error">>,
                        JSStr(s_image_png), 0)}
    \cup {FetchResponse(200, <<"OK">>, ct, n) :
            ct \in ImageContentTypes, n \in ImageSizes}

TextWords == {"limit", "required", "must", "be"}
StabilityErrorStatuses == {400, 429, 500}

StabilityOutcomes ==
  {StabilityRejected}
    \cup {StabilityResponse(st, text, JsonMalformed) :
            st \in StabilityErrorStatuses,
            text \in SeqsUpTo(TextWords, MaxTextLen)}
    \cup {StabilityResponse(200, <<>>, j) :
            j \in {JsonMalformed, JsonNull, JsonObject(JSUndefined),
                   JsonObject(JSStr(<<>>)),
                   JsonObject(JSStr(<<"A", "A", "A", "A">>))}}

(***************************************************************************)
(* The handlers                                                            *)
(***************************************************************************)
CorsHeaders_afterMethodCheck == {}
CorsHeaders ==
  {"Access-Control-Allow-Origin", "Access-Control-Allow-Methods",
   "Access-Control-Allow-Headers"}

Init ==
  /\ apiKey \in ApiKeys
  /\ op = "none"
  /\ req = None
  /\ headers = {}
  /\ pc = "idle"
  /\ body = None
  /\ imageUrl = None
  /\ params = None
  /\ imageData = None
  /\ thrown = NoError
  /\ steps = <<>>
  /\ network = <<>>
  /\ imageServer = NotSettled
  /\ stability = NotSettled
  /\ responses = <<>>
  /\ argument = None
  /\ returned = None

\* the handler's outer catch: respond and finish
Catch(error) ==
  /\ thrown' = error
  /\ responses' = responses \o catchBlock(op, error)
  /\ pc' = "done"

\* res.status(..).json(..) or .end() followed by return
Respond(response) ==
  /\ responses' = Append(responses, response)
  /\ pc' = "done"

\* The platform invokes a handler: CORS headers, then the method checks.
Invoke(operation, method, raw) ==
  /\ pc = "idle"
  /\ op' = operation
  /\ req' = [method |-> method, body |-> raw]
  /\ headers' = headers \cup CorsHeaders
  /\ IF method = "OPTIONS" THEN Respond(End(200))
     ELSE IF method # "POST" THEN Respond(MethodNotAllowed)
     ELSE pc' = "parse" /\ UNCHANGED responses
  /\ UNCHANGED <<argument, returned>>
  /\ UNCHANGED <<apiKey, body, imageUrl, params, imageData, thrown, steps,
                 network, imageServer, stability>>

ParseBody_paramsFirst ==
  /\ pc = "parse"
  /\ steps' = Append(steps, "parseBody")
  /\ LET parsed == parseBody(rawBody(req.body))
     IN IF parsed.ok
        THEN /\ body' = parsed.value
             /\ pc' = "validateParams"
             /\ UNCHANGED responses
        ELSE /\ Respond(InvalidJson)
             /\ UNCHANGED body
  /\ UNCHANGED <<argument, returned>>
  /\ UNCHANGED <<apiKey, op, req, headers, imageUrl, params, imageData,
                 thrown, network, imageServer, stability>>

\* Parse JSON body
ParseBody ==
  /\ pc = "parse"
  /\ steps' = Append(steps, "parseBody")
  /\ LET parsed == parseBody(rawBody(req.body))
     IN IF parsed.ok
        THEN /\ body' = parsed.value
             /\ pc' = IF op = "enhance" THEN "validateImageUrl"
                      ELSE "validateParams"
             /\ UNCHANGED responses
        ELSE /\ Respond(InvalidJson)
             /\ UNCHANGED body
  /\ UNCHANGED <<argument, returned>>
  /\ UNCHANGED <<apiKey, op, req, headers, imageUrl, params, imageData,
                 thrown, network, imageServer, stability>>

\* enhance: const imageUrl = validateImageUrl(body.image_url)
ValidateImageUrl ==
  /\ pc = "validateImageUrl"
  /\ steps' = Append(steps, "validateImageUrl")
  /\ LET result ==
           IF body.t = "null"
           THEN Throw("TypeError",
                      <<"Cannot", "read", "properties", "of", "null",
                        "(reading", "'image_url')">>)
           ELSE validateImageUrl(body.f.image_url)
     IN IF result.ok
        THEN /\ imageUrl' = result.value
             /\ pc' = "validateParams"
             /\ UNCHANGED <<thrown, responses>>
        ELSE /\ Catch(result)
             /\ UNCHANGED imageUrl
  /\ UNCHANGED <<argument, returned>>
  /\ UNCHANGED <<apiKey, op, req, headers, body, params, imageData, network,
                 imageServer, stability>>

\* const params = validateParams(body)
ValidateParams ==
  /\ pc = "validateParams"
  /\ steps' = Append(steps, "validateParams")
  /\ LET result == validateParams(body)
     IN IF result.ok
        THEN /\ params' = result.value
             /\ pc' = IF op = "enhance" THEN "downloadImage"
                      ELSE "callStabilityAPI"
             /\ UNCHANGED <<thrown, responses>>
        ELSE /\ Catch(result)
             /\ UNCHANGED params
  /\ UNCHANGED <<argument, returned>>
  /\ UNCHANGED <<apiKey, op, req, headers, body, imageUrl, imageData, network,
                 imageServer, stability>>

\* enhance: downloadImage(imageUrl) issues its fetch
DownloadImage ==
  /\ pc = "downloadImage"
  /\ steps' = Append(steps, "downloadImage")
  /\ network' = Append(network, [to |-> "image", method |-> "GET",
                                   url |-> imageUrl])
  /\ pc' = "awaitDownload"
  /\ UNCHANGED <<argument, returned>>
  /\ UNCHANGED <<apiKey, op, req, headers, body, imageUrl, params, imageData,
                 thrown, imageServer, stability, responses>>

\* enhance: the image fetch settles; the download try/catch
DownloadSettles(remote) ==
  /\ pc = "awaitDownload"
  /\ imageServer' = remote
  /\ LET result == downloadImage(remote)
     IN IF result.ok
        THEN /\ imageData' = result.value
             /\ pc' = "checkSize"
             /\ UNCHANGED responses
        ELSE /\ Respond(DownloadFailed(result))
             /\ UNCHANGED imageData
  /\ UNCHANGED <<argument, returned>>
  /\ UNCHANGED <<apiKey, op, req, headers, body, imageUrl, params, thrown,
                 steps, network, stability>>

\* enhance: Validate image size
CheckSize ==
  /\ pc = "checkSize"
  /\ steps' = Append(steps, "checkSize")
  /\ IF tooLarge(imageData.buffer.length)
     THEN Respond(ImageTooLarge(imageData.buffer.length))
     ELSE pc' = "callStabilityAPI" /\ UNCHANGED responses
  /\ UNCHANGED <<argument, returned>>
  /\ UNCHANGED <<apiKey, op, req, headers, body, imageUrl, params, imageData,
                 thrown, network, imageServer, stability>>

\* callStabilityAPI up to its fetch: the credential check, the form
CallStabilityAPI ==
  /\ pc = "callStabilityAPI"
  /\ steps' = Append(steps, "callStabilityAPI")
  /\ IF credentialMissing(apiKey)
     THEN /\ Catch(Throw("Error", MsgApiKey))
          /\ UNCHANGED network
     ELSE /\ network' =
               Append(network, stabilityRequest(op, params, imageData, apiKey))
          /\ pc' = "awaitStability"
          /\ UNCHANGED <<thrown, responses>>
  /\ UNCHANGED <<argument, returned>>
  /\ UNCHANGED <<apiKey, op, req, headers, body, imageUrl, params, imageData,
                 imageServer, stability>>

StabilitySettles_retried(upstream) ==
  /\ pc = "awaitStability"
  /\ stability' = upstream
  /\ LET result == stabilityResult(upstream)
         attempts == Len(SelectSeq(network, LAMBDA r : r.to = "stability"))
     IN IF result.ok
        THEN /\ Respond(successResponse(op, params, imageUrl, imageData,
                                        result.value))
             /\ UNCHANGED <<thrown, network>>
        ELSE IF attempts < 2
        THEN /\ network' = Append(network, network[Len(network)])
             /\ UNCHANGED <<pc, thrown, responses>>
        ELSE /\ Catch(result)
             /\ UNCHANGED network
  /\ UNCHANGED <<argument, returned>>
  /\ UNCHANGED <<apiKey, op, req, headers, body, imageUrl, params, imageData,
                 steps, imageServer>>

\* the upstream fetch settles; the rest of callStabilityAPI and of the try
StabilitySettles(upstream) ==
  /\ pc = "awaitStability"
  /\ stability' = upstream
  /\ LET result == stabilityResult(upstream)
     IN IF result.ok
        THEN /\ Respond(successResponse(op, params, imageUrl, imageData,
                                        result.value))
             /\ UNCHANGED thrown
        ELSE Catch(result)
  /\ UNCHANGED <<argument, returned>>
  /\ UNCHANGED <<apiKey, op, req, headers, body, imageUrl, params, imageData,
                 steps, network, imageServer>>

\* a request arrives for one of the two endpoints
Request ==
  /\ pc = "idle"
  /\ \E operation \in {"enhance", "generate"}, method \in Methods,
        raw \in RawBodies : Invoke(operation, method, raw)

Next ==
  \/ Request
  \/ ParseBody
  \/ ValidateImageUrl
  \/ ValidateParams
  \/ DownloadImage
  \/ pc = "awaitDownload"
       /\ \E remote \in ImageServerOutcomes : DownloadSettles(remote)
  \/ CheckSize
  \/ CallStabilityAPI
  \/ pc = "awaitStability"
       /\ \E upstream \in StabilityOutcomes : StabilitySettles(upstream)

Spec == Init /\ [][Next]_vars

(***************************************************************************)
(* validateParams on its own: Init draws the argument, one action applies  *)
(* the function.  Each family of inputs varies one property over a large   *)
(* set and the others over a few typical values.                           *)
(***************************************************************************)
CaseVariants(word) ==
  {[i \in 1..Len(word) |->
      IF i \in upper
      THEN UpperLetters[CHOOSE k \in 1..Len(LowerLetters) :
                          LowerLetters[k] = word[i]]
      ELSE word[i]] : upper \in SUBSET (1..Len(word))}

PromptInputs ==
  {JSUndefined, JSNull, JSNum(5, 1)}
    \cup {JSStr(w) : w \in SeqsUpTo({" ", "a"}, MaxPromptLen)}
AspectInputs ==
  {JSUndefined, JSNum(5, 1)}
    \cup {JSStr(w) : w \in SeqsUpTo({"1", "6", ":", "x"}, MaxAspectLen)}
FormatInputs ==
  {JSUndefined, JSNull, JSNum(5, 1), JSStr(<<>>)}
    \cup {JSStr(w) : w \in UNION {CaseVariants(f) :
                                    f \in {s_webp, s_png, s_jpeg, s_jpg,
                                           s_gif}}}
StrengthInputs ==
  {JSUndefined, JSNull, JSTrue}
    \cup {JSNum(n, 100) : n \in {0 - 1, 0, 50, 100, 101}}
    \cup {JSStr(w) :
            w \in SeqsUpTo({"0", "1", "5", ".", "-", "a"}, MaxStrengthLen)}

TypicalPrompts == {JSStr(<<"a">>), JSStr(<<" ", "a", " ">>)}
TypicalAspects == {JSUndefined, JSStr(<<"1", "6", ":", "9">>)}
TypicalFormats == {JSUndefined, JSStr(s_png), JSStr(<<"P", "N", "G">>)}
TypicalStrengths == {JSUndefined, JSNum(0, 1), JSNum(5, 10)}

ParamsObject(p, a, f, st) ==
  BodyObject([prompt |-> p, aspect_ratio |-> a, output_format |-> f,
              strength |-> st, image_url |-> JSUndefined])

ValidateInputs ==
  {BodyNull, BodyNumber}
    \cup {ParamsObject(p, a, f, st) : p \in PromptInputs,
            a \in TypicalAspects, f \in TypicalFormats,
            st \in TypicalStrengths}
    \cup {ParamsObject(p, a, f, st) : p \in TypicalPrompts,
            a \in AspectInputs, f \in TypicalFormats,
            st \in TypicalStrengths}
    \cup {ParamsObject(p, a, f, st) : p \in TypicalPrompts,
            a \in TypicalAspects, f \in FormatInputs,
            st \in TypicalStrengths}
    \cup {ParamsObject(p, a, f, st) : p \in TypicalPrompts,
            a \in TypicalAspects, f \in TypicalFormats,
            st \in StrengthInputs}

InitValidate ==
  /\ apiKey = JSUndefined
  /\ op = "none"
  /\ req = None
  /\ headers = {}
  /\ pc = "apply"
  /\ body \in ValidateInputs
  /\ imageUrl = None
  /\ params = None
  /\ imageData = None
  /\ thrown = NoError
  /\ steps = <<>>
  /\ network = <<>>
  /\ imageServer = NotSettled
  /\ stability = NotSettled
  /\ responses = <<>>
  /\ argument = None
  /\ returned = None

ApplyValidateParams ==
  /\ pc = "apply"
  /\ pc' = "applied"
  /\ LET result == validateParams(body)
     IN IF result.ok
        THEN params' = result.value /\ UNCHANGED thrown
        ELSE thrown' = result /\ UNCHANGED params
  /\ UNCHANGED <<argument, returned>>
  /\ UNCHANGED <<apiKey, op, req, headers, body, imageUrl, imageData, steps,
                 network, imageServer, stability, responses>>

NextValidate == ApplyValidateParams

SpecValidate == InitValidate /\ [][NextValidate]_vars

(***************************************************************************)
(* getMimeType and getFileExtension on their own: Init draws the function  *)
(* and its argument, one action per function applies it.                   *)
(***************************************************************************)
\* String.prototype.toUpperCase
ToUpperCase(s) ==
  [i \in 1..Len(s) |->
     IF \E k \in 1..Len(LowerLetters) : LowerLetters[k] = s[i]
     THEN UpperLetters[CHOOSE k \in 1..Len(LowerLetters) :
                         LowerLetters[k] = s[i]]
     ELSE s[i]]

ShortKeys == SeqsUpTo({"p", "n", "g", "G", ";"}, MaxKeyLen)

MimeTypeInputs ==
  {JSUndefined, JSNull, JSNum(5, 1), JSStr(s_constructor)}
    \cup {JSStr(w) : w \in ShortKeys}
    \cup {JSStr(w) : w \in UNION {CaseVariants(f) :
                                    f \in {s_webp, s_png, s_jpeg, s_jpg,
                                           s_gif}}}

ContentTypeParameters ==
  {<<>>, <<";">>, <<";", " ", "q", "=", "1">>,
   <<";", "c", "h", "a", "r", "s", "e", "t", "=", "u", "t", "f", "-", "8">>}

FileExtensionInputs ==
  {JSUndefined, JSNull, JSNum(5, 1)}
    \cup {JSStr(w) : w \in ShortKeys}
    \cup {JSStr(w \o suffix) :
            w \in UNION {{ct, ToUpperCase(ct)} :
                          ct \in {s_image_webp, s_image_png, s_image_jpeg,
                                  s_image_jpg, s_octet_stream, s_constructor,
                                  <<"i", "m", "a", "g", "e", "/">> \o s_gif}},
            suffix \in ContentTypeParameters}

InitFormat ==
  /\ apiKey = JSUndefined
  /\ op = "none"
  /\ req = None
  /\ headers = {}
  /\ pc = "apply"
  /\ body = None
  /\ imageUrl = None
  /\ params = None
  /\ imageData = None
  /\ thrown = NoError
  /\ steps = <<>>
  /\ network = <<>>
  /\ imageServer = NotSettled
  /\ stability = NotSettled
  /\ responses = <<>>
  /\ argument \in
       {[fn |-> "getMimeType", value |-> v] : v \in MimeTypeInputs}
         \cup {[fn |-> "getFileExtension", value |-> v] :
                 v \in FileExtensionInputs}
  /\ returned = None

ApplyGetMimeType ==
  /\ pc = "apply"
  /\ argument.fn = "getMimeType"
  /\ returned' = getMimeType(argument.value)
  /\ pc' = "applied"
  /\ UNCHANGED <<apiKey, op, req, headers, body, imageUrl, params, imageData,
                 thrown, steps, network, imageServer, stability, responses,
                 argument>>

ApplyGetFileExtension ==
  /\ pc = "apply"
  /\ argument.fn = "getFileExtension"
  /\ returned' = getFileExtension(argument.value)
  /\ pc' = "applied"
  /\ UNCHANGED <<apiKey, op, req, headers, body, imageUrl, params, imageData,
                 thrown, steps, network, imageServer, stability, responses,
                 argument>>

NextFormat == ApplyGetMimeType \/ ApplyGetFileExtension

SpecFormat == InitFormat /\ [][NextFormat]_vars

(***************************************************************************)
(* Properties                                                              *)
(***************************************************************************)
Entered(step) == \E i \in 1..Len(steps) : steps[i] = step
LastStep(step) == steps # <<>> /\ steps[Len(steps)] = step
StabilityCalls == {i \in 1..Len(network) : network[i].to = "stability"}
ImageFetches == {i \in 1..Len(network) : network[i].to = "image"}

\* C1: a POST that reaches the upstream client while STABILITY_API_KEY is
\* absent is answered with HTTP 500 and the message
\* "STABILITY_API_KEY environment variable is required".
C1_MissingKeyAnswered500 ==
  (pc = "done" /\ Entered("callStabilityAPI") /\ apiKey = JSUndefined)
    => responses = <<Json(500, [error |-> failureLabel(op),
                                message |-> MsgApiKey, timestamp |-> Now])>>

\* C2: while the upstream credential is absent no HTTP request is ever
\* issued to the upstream Stability API endpoint.
C2_NoUpstreamCallWithoutKey == ~Truthy(apiKey) => StabilityCalls = {}

C2_Witness ==
  pc = "done" /\ apiKey = JSUndefined /\ LastStep("callStabilityAPI")

\* C3: when the upstream API answers with a non-success status, whatever
\* the status and the body text, the caller is answered with HTTP 502 and a
\* message embedding the upstream status and the raw body text.
C3_UpstreamErrorAnswered502 ==
  (pc = "done" /\ stability.kind = "response"
     /\ ~ResponseOk(stability.status))
    => /\ Len(responses) = 1
       /\ responses[1].status = 502
       /\ responses[1].body.message =
            <<"Stability", "API", "error", ":", ToString(stability.status),
              "-">> \o stability.text

\* C4: when the upstream API answers with a success status and a JSON body
\* with no or an empty image field, the error is "No image data received
\* from Stability API" and the caller is answered with HTTP 502.
C4_NoImageAnswered502 ==
  (pc = "done" /\ stability.kind = "response"
     /\ ResponseOk(stability.status) /\ stability.json.valid
     /\ stability.json.t = "object" /\ ~Truthy(stability.json.image))
    => /\ thrown = Throw("Error", MsgNoImage)
       /\ Len(responses) = 1
       /\ responses[1].status = 502

\* C5: in the enhance handler a downloaded image of more than
\* 10 * 1024 * 1024 bytes is answered with HTTP 400 and no upstream call is
\* ever made for the request; an image of exactly 10 * 1024 * 1024 bytes
\* passes the size check.
C5_SizeLimit ==
  imageData # None =>
    LET length == imageData.buffer.length
    IN /\ length > 10 * 1024 * 1024 =>
            /\ StabilityCalls = {}
            /\ ~Entered("callStabilityAPI")
            /\ pc = "done" =>
                 (Len(responses) = 1 /\ responses[1].status = 400)
       /\ (length = 10 * 1024 * 1024 /\ Entered("checkSize")) =>
            /\ pc = "callStabilityAPI" \/ Entered("callStabilityAPI")
            /\ \A i \in 1..Len(responses) :
                 \/ responses[i].status = 200
                 \/ responses[i].body.error # "Image too large"

C5_Witness ==
  /\ pc = "done"
  /\ imageData # None
  /\ imageData.buffer.length > 10 * 1024 * 1024
  /\ LastStep("checkSize")

\* C6: for every input whose prompt is non-empty after trimming, whose
\* aspect_ratio matches ^\d+:\d+$ and whose output_format is webp, png or
\* jpeg in any letter case, validateParams succeeds and returns the prompt
\* trimmed and the output_format lowercased.
C6_Precondition ==
  /\ body.t = "object"
  /\ body.f.prompt.t = "string"
  /\ Trim(body.f.prompt.s) # <<>>
  /\ body.f.aspect_ratio.t = "string"
  /\ MatchesAspect(body.f.aspect_ratio)
  /\ body.f.output_format.t = "string"
  /\ ToLowerCase(body.f.output_format.s) \in {s_webp, s_png, s_jpeg}
  /\ body.f.strength.t = "undefined"

C6_ValidInputNormalised ==
  (pc = "applied" /\ C6_Precondition)
    => /\ params # None
       /\ params.prompt = JSStr(Trim(body.f.prompt.s))
       /\ params.output_format = JSStr(ToLowerCase(body.f.output_format.s))

\* C7: whatever the parsed body, wrong types and a null body included, a
\* failure of parameter validation is answered with HTTP 400, never with
\* HTTP 500.
C7_ValidationFailureAnswered400 ==
  (pc = "done" /\ LastStep("validateParams"))
    => (Len(responses) = 1 /\ responses[1].status = 400)

\* C8: validateParams accepts a provided strength exactly when it is a
\* numeric value in [0,1]; every other provided strength fails with
\* "Strength must be a number between 0 and 1"; the returned record has no
\* strength field exactly when the input has none.
IsDecimalLiteral(text) ==
  LET t == Trim(text)
      u == IF t # <<>> /\ Head(t) \in {"+", "-"} THEN Tail(t) ELSE t
  IN /\ \E i \in 1..Len(u) : IsDigit(u[i])
     /\ \A i \in 1..Len(u) : IsDigit(u[i]) \/ u[i] = "."
     /\ Cardinality({i \in 1..Len(u) : u[i] = "."}) <= 1

IsNumeric(v) ==
  \/ v.t = "number" /\ ~IsNaN(v)
  \/ v.t = "string" /\ IsDecimalLiteral(v.s)

C8_OthersValid ==
  /\ body.t = "object"
  /\ body.f.prompt \in TypicalPrompts
  /\ body.f.aspect_ratio \in TypicalAspects
  /\ body.f.output_format \in TypicalFormats

C8_StrengthAcceptedIffNumericInRange ==
  (pc = "applied" /\ C8_OthersValid)
    => LET strength == body.f.strength
           value == ParseFloat(strength)
           inRange == /\ IsNumeric(strength)
                      /\ value.num >= 0
                      /\ value.num <= value.den
       IN IF strength.t = "undefined"
          THEN params # None /\ "strength" \notin DOMAIN params
          ELSE IF inRange
          THEN params # None /\ "strength" \in DOMAIN params
                 /\ params.strength = value
          ELSE thrown = Throw("Error", MsgStrength)

\* C9: every non-200 response of the generate and enhance handlers has a
\* body with exactly the three fields error, message and timestamp.
C9_FailureBodyShape ==
  \A i \in 1..Len(responses) :
    responses[i].status # 200
      => DOMAIN responses[i].body = {"error", "message", "timestamp"}

\* C10: whatever the outcomes of body parsing, validation, image download,
\* size check, credential lookup and upstream call, the handlers send
\* exactly one response: none is sent twice, and a handler that has
\* finished has sent one.
C10_ExactlyOneResponse ==
  /\ Len(responses) <= 1
  /\ pc = "done" <=> Len(responses) = 1

C10_Witness ==
  pc = "done" /\ Len(responses) = 1 /\ thrown # NoError
    /\ stability # NotSettled

\* C11: on both endpoints an OPTIONS request is answered with HTTP 200 and
\* every other non-POST method with HTTP 405, in both cases with the
\* cross-origin headers set and without parsing the body, fetching an image
\* or calling the upstream API.
C11_NonPostMethods ==
  (req # None /\ req.method # "POST")
    => /\ pc = "done"
       /\ Len(responses) = 1
       /\ responses[1].status = IF req.method = "OPTIONS" THEN 200 ELSE 405
       /\ {"Access-Control-Allow-Origin", "Access-Control-Allow-Methods",
           "Access-Control-Allow-Headers"} \subseteq headers
       /\ steps = <<>>
       /\ body = None
       /\ network = <<>>

C11_Witness ==
  pc = "done" /\ req # None /\ req.method = "GET" /\ op = "enhance"
    /\ req.body.kind = "text" /\ req.body.text = "json"

\* C12: in the enhance handler an image_url that is absent, not a string,
\* not parseable as an absolute URL, or whose scheme is neither http nor
\* https is answered with HTTP 400 as a validation error, and neither the
\* image download nor the upstream call is ever attempted for the request.
C12_UrlRejected(image_url) ==
  \/ image_url.t # "string"
  \/ ~NewURL(image_url.s).ok
  \/ NewURL(image_url.s).value.protocol \notin {"http:", "https:"}

C13_DownloadFailure ==
  (imageServer # NotSettled
     /\ (imageServer.kind = "reject" \/ ~ResponseOk(imageServer.status)))
    => /\ pc = "done"
       /\ Len(responses) = 1
       /\ responses[1].status = 400
       /\ IF imageServer.kind = "reject"
          THEN Includes(responses[1].body.message, imageServer.cause)
          ELSE Includes(responses[1].body.message,
                        <<ToString(imageServer.status)>>
                          \o imageServer.statusText)
       /\ StabilityCalls = {}
       /\ ~Entered("callStabilityAPI")

C13_Witness ==
  /\ pc = "done"
  /\ imageServer # NotSettled
  /\ imageServer.kind = "response"
  /\ imageServer.status = 404

\* C14: every successful generate or enhance request is answered with HTTP
\* 200, image_url equal to "data:" + mimeType + ";base64," + the upstream
\* image field verbatim, mimeType being image/webp, image/png or image/jpeg
\* according to the validated output_format in any letter case, and the
\* metadata echoes the validated prompt, aspect_ratio and output_format.
C14_MimeType(output_format) ==
  LET lower == ToLowerCase(output_format.s)
  IN CASE lower = <<"p", "n", "g">> ->
            <<"i", "m", "a", "g", "e", "/", "p", "n", "g">>
       [] lower = <<"j", "p", "e", "g">> ->
            <<"i", "m", "a", "g", "e", "/", "j", "p", "e", "g">>
       [] OTHER -> <<"i", "m", "a", "g", "e", "/", "w", "e", "b", "p">>

C14_UpstreamSucceeded ==
  /\ stability # NotSettled
  /\ stability.kind = "response"
  /\ ResponseOk(stability.status)
  /\ stability.json.valid
  /\ stability.json.t = "object"
  /\ Truthy(stability.json.image)

C14_SuccessResponse ==
  C14_UpstreamSucceeded
    => /\ pc = "done"
       /\ Len(responses) = 1
       /\ responses[1].status = 200
       /\ responses[1].body.image_url =
            <<"d", "a", "t", "a", ":">> \o C14_MimeType(params.output_format)
              \o <<";", "b", "a", "s", "e", "6", "4", ",">>
              \o stability.json.image.s
       /\ responses[1].body.metadata.prompt = params.prompt
       /\ responses[1].body.metadata.prompt.s = Trim(body.f.prompt.s)
       /\ responses[1].body.metadata.aspect_ratio = params.aspect_ratio
       /\ responses[1].body.metadata.output_format = params.output_format
       /\ ToLowerCase(params.output_format.s)
            \in {<<"w", "e", "b", "p">>, <<"p", "n", "g">>,
                 <<"j", "p", "e", "g">>}

C14_Witness ==
  /\ pc = "done"
  /\ C14_UpstreamSucceeded
  /\ op = "enhance"
  /\ params.output_format.s = <<"P", "N", "G">>

\* C16: for every request the handlers issue at most one POST to the
\* upstream API and (enhance only) at most one image download; a failure of
\* either call is never followed by a second attempt of the same call.
C16_NoRetry ==
  /\ Cardinality(StabilityCalls) <= 1
  /\ Cardinality(ImageFetches) <= 1
  /\ op = "generate" => ImageFetches = {}
  /\ Len(network) <= 2

C16_Witness ==
  /\ pc = "done"
  /\ stability # NotSettled
  /\ stability.kind = "reject"
  /\ Cardinality(StabilityCalls) = 1
  /\ Cardinality(ImageFetches) = 1

\* C17: the enhance handler runs body parse, image_url validation,
\* parameter validation, image download, size check, credential check and
\* upstream call in this order; the first stage that fails determines the
\* response and no later stage runs.  So an invalid image_url together with
\* an invalid prompt reports the image_url error, and a request made while
\* the credential is absent downloads the image before it fails.
C17_Order ==
  <<"parseBody", "validateImageUrl", "validateParams", "downloadImage",
    "checkSize", "callStabilityAPI">>

C17_FixedOrder ==
  op = "enhance"
    => /\ Len(steps) <= Len(C17_Order)
       /\ steps = SubSeq(C17_Order, 1, Len(steps))
       /\ StabilityCalls # {} => steps = C17_Order
       /\ (pc = "done" /\ LastStep("parseBody"))
            => responses[1].body.error = "Invalid JSON"
       /\ (pc = "done" /\ LastStep("validateImageUrl"))
            => /\ responses[1].body.error = "Image enhancement failed"
               /\ responses[1].body.message[1] \in {"image_url", "Cannot"}
       /\ (pc = "done" /\ LastStep("validateParams"))
            => /\ responses[1].body.error = "Image enhancement failed"
               /\ responses[1].body.message[1]
                    \in {"Prompt", "Strength", "Aspect", "Output", "Cannot",
                         "validatedParams"}
       /\ (pc = "done" /\ LastStep("downloadImage"))
            => responses[1].body.error = "Image download failed"
       /\ (pc = "done" /\ LastStep("checkSize"))
            => responses[1].body.error = "Image too large"
       /\ (pc = "done" /\ LastStep("validateImageUrl") /\ body.t = "object"
             /\ ~Truthy(body.f.prompt))
            => responses[1].body.message[1] = "image_url"
       /\ (~Truthy(apiKey) /\ Entered("callStabilityAPI"))
            => /\ pc = "done"
               /\ Cardinality(ImageFetches) = 1
               /\ imageServer # NotSettled
               /\ responses[1].body.message = MsgApiKey

C17_Witness ==
  /\ pc = "done"
  /\ op = "enhance"
  /\ apiKey = JSUndefined
  /\ LastStep("callStabilityAPI")
  /\ ImageFetches # {}

\* C15: getMimeType and getFileExtension are total: for every input,
\* empty and absent included, and for any string that is not a key of
\* their lookup tables, getMimeType returns "image/webp" and
\* getFileExtension returns ".bin"; for table keys (case-insensitively,
\* for getFileExtension after dropping a ";" parameter suffix) they return
\* the table entry.
C15_MimeTypeOf(key) ==
  CASE key = <<"w", "e", "b", "p">> ->
         <<"i", "m", "a", "g", "e", "/", "w", "e", "b", "p">>
    [] key = <<"p", "n", "g">> ->
         <<"i", "m", "a", "g", "e", "/", "p", "n", "g">>
    [] key \in {<<"j", "p", "e", "g">>, <<"j", "p", "g">>} ->
         <<"i", "m", "a", "g", "e", "/", "j", "p", "e", "g">>
    [] OTHER -> <<"i", "m", "a", "g", "e", "/", "w", "e", "b", "p">>

C15_ExtensionOf(key) ==
  CASE key = <<"i", "m", "a", "g", "e", "/", "w", "e", "b", "p">> ->
         <<".", "w", "e", "b", "p">>
    [] key = <<"i", "m", "a", "g", "e", "/", "p", "n", "g">> ->
         <<".", "p", "n", "g">>
    [] key \in {<<"i", "m", "a", "g", "e", "/", "j", "p", "e", "g">>,
                <<"i", "m", "a", "g", "e", "/", "j", "p", "g">>} ->
         <<".", "j", "p", "g">>
    [] OTHER -> <<".", "b", "i", "n">>

C15_MainType(text) ==
  IF \E i \in 1..Len(text) : text[i] = ";"
  THEN SubSeq(text, 1, (CHOOSE i \in 1..Len(text) :
                          /\ text[i] = ";"
                          /\ \A j \in 1..(i - 1) : text[j] # ";") - 1)
  ELSE text

C15_TotalWithDefaults ==
  (pc = "applied" /\ argument # None
     /\ argument.value.t \in {"string", "undefined", "null"})
    => /\ returned.ok
       /\ returned.value =
            IF argument.fn = "getMimeType"
            THEN JSStr(C15_MimeTypeOf(ToLowerCase(argument.value.s)))
            ELSE JSStr(C15_ExtensionOf(
                         ToLowerCase(C15_MainType(argument.value.s))))

====
